---- MODULE Spec2Model ----
(***************************************************************************)
(* Model of src/src/wavhdr.h: the wavHeader_t record of a canonical        *)
(* RIFF/WAVE file and the three macros TEST_WAV_COMPAT, WAV_LEN and        *)
(* WAV_NSAMPLES that read it.                                              *)
(*                                                                         *)
(* A header is modelled as the C object it is: the bytes of its object     *)
(* representation (variable wav).  A member access (wav)->X decodes the    *)
(* bytes at offsetof(X) in the byte order of the host, and offsetof is     *)
(* computed by the ABI's struct layout rule from the declaration order,    *)
(* the member sizes and the alignment of the integer types.  The byte      *)
(* order of the host and the alignments are properties of the build, so    *)
(* they are chosen in Init and never change.                               *)
(***************************************************************************)
EXTENDS Integers, Sequences, FiniteSets, TLC

VARIABLES host, abi, wav, compat, len, nsamples

vars == << host, abi, wav, compat, len, nsamples >>

(***************************************************************************)
(* Bounds of the model.                                                    *)
(***************************************************************************)
\* AudioFormat is drawn from 0..MaxFormat
MaxFormat == 1
\* NumOfChan is drawn from 0..MaxChan and the largest 16-bit value
MaxChan == 2
\* Subchunk2Size is drawn from 0..MaxSmallLen and some larger values
MaxSmallLen == 0

(***************************************************************************)
(* Character constants of TEST_WAV_COMPAT.                                 *)
(***************************************************************************)
\* 'd'
Ch_d == 100
\* 'a'
Ch_a == 97

(***************************************************************************)
(* The build: byte order of the host and alignment of uint16_t/uint32_t.   *)
(***************************************************************************)
Hosts == { "little", "big" }

\* alignment of uint16_t (a16) and uint32_t (a32); uint8_t is 1 everywhere
ABIs == { [a16 |-> 1, a32 |-> 1], [a16 |-> 2, a32 |-> 2], [a16 |-> 2, a32 |-> 4] }

(***************************************************************************)
(* struct wavHeader: the members in declaration order; size is the size    *)
(* of the element type in bytes, count the number of elements.             *)
(***************************************************************************)
wavHeader_swapped ==
  << [name |-> "RIFF",          size |-> 1, count |-> 4],
     [name |-> "ChunkSize",     size |-> 4, count |-> 1],
     [name |-> "WAVE",          size |-> 1, count |-> 4],
     [name |-> "fmt",           size |-> 1, count |-> 4],
     [name |-> "AudioFormat",   size |-> 2, count |-> 1],
     [name |-> "Subchunk1Size", size |-> 4, count |-> 1],
     [name |-> "NumOfChan",     size |-> 2, count |-> 1],
     [name |-> "SamplesPerSec", size |-> 4, count |-> 1],
     [name |-> "bytesPerSec",   size |-> 4, count |-> 1],
     [name |-> "blockAlign",    size |-> 2, count |-> 1],
     [name |-> "bitsPerSample", size |-> 2, count |-> 1],
     [name |-> "Subchunk2ID",   size |-> 1, count |-> 4],
     [name |-> "Subchunk2Size", size |-> 4, count |-> 1] >>

wavHeader ==
  << [name |-> "RIFF",          size |-> 1, count |-> 4],
     [name |-> "ChunkSize",     size |-> 4, count |-> 1],
     [name |-> "WAVE",          size |-> 1, count |-> 4],
     [name |-> "fmt",           size |-> 1, count |-> 4],
     [name |-> "Subchunk1Size", size |-> 4, count |-> 1],
     [name |-> "AudioFormat",   size |-> 2, count |-> 1],
     [name |-> "NumOfChan",     size |-> 2, count |-> 1],
     [name |-> "SamplesPerSec", size |-> 4, count |-> 1],
     [name |-> "bytesPerSec",   size |-> 4, count |-> 1],
     [name |-> "blockAlign",    size |-> 2, count |-> 1],
     [name |-> "bitsPerSample", size |-> 2, count |-> 1],
     [name |-> "Subchunk2ID",   size |-> 1, count |-> 4],
     [name |-> "Subchunk2Size", size |-> 4, count |-> 1] >>

FieldNames == { wavHeader[i].name : i \in 1..Len(wavHeader) }

\* the position of each member in the declaration
FieldIndex ==
  [ name \in FieldNames |-> CHOOSE i \in 1..Len(wavHeader) : wavHeader[i].name = name ]

FieldIdx(name) == FieldIndex[name]

\* alignment of a member's element type under ABI a
AlignOf(size, a) == IF size = 1 THEN 1 ELSE IF size = 2 THEN a.a16 ELSE a.a32

RoundUp(n, al) == ((n + al - 1) \div al) * al

\* offsetof the i-th member: the end of the previous member, rounded up to
\* the member's alignment
RECURSIVE OffsetAt(_, _)
OffsetAt(i, a) ==
  IF i = 1 THEN 0
  ELSE RoundUp(OffsetAt(i - 1, a) + wavHeader[i - 1].size * wavHeader[i - 1].count,
               AlignOf(wavHeader[i].size, a))

\* the layout of the struct under each ABI: the offset of every member
Layout == [ a \in ABIs |-> [ i \in 1..Len(wavHeader) |-> OffsetAt(i, a) ] ]

EndAt(i, a) == Layout[a][i] + wavHeader[i].size * wavHeader[i].count

OffsetOf(name, a) == Layout[a][FieldIdx(name)]

\* alignment of the struct: the largest member alignment
StructAlign(a) ==
  CHOOSE m \in { AlignOf(wavHeader[i].size, a) : i \in 1..Len(wavHeader) } :
    \A j \in 1..Len(wavHeader) : AlignOf(wavHeader[j].size, a) <= m

\* sizeof(wavHeader_t) under each ABI: the end of the last member, rounded
\* up to the struct's alignment
SizeTable == [ a \in ABIs |-> RoundUp(EndAt(Len(wavHeader), a), StructAlign(a)) ]

SizeOf(a) == SizeTable[a]

(***************************************************************************)
(* Object representation of the integer types.                             *)
(***************************************************************************)
\* the size bytes of the unsigned value v, least significant first
RECURSIVE LEBytes(_, _)
LEBytes(v, size) ==
  IF size = 0 THEN << >> ELSE << v % 256 >> \o LEBytes(v \div 256, size - 1)

Reverse(s) == [ i \in 1..Len(s) |-> s[Len(s) + 1 - i] ]

\* the unsigned value of bytes given least significant first
RECURSIVE LEValue(_)
LEValue(bytes) ==
  IF bytes = << >> THEN 0 ELSE bytes[1] + 256 * LEValue(Tail(bytes))

\* the bytes the host stores for the unsigned value v
HostBytes(v, size, h) ==
  IF h = "little" THEN LEBytes(v, size) ELSE Reverse(LEBytes(v, size))

\* the unsigned value the host loads from bytes
HostValue(bytes, h) ==
  IF h = "little" THEN LEValue(bytes) ELSE LEValue(Reverse(bytes))

\* the bytes of member name of the object m
Bytes(m, name) ==
  LET i == FieldIdx(name)
  IN  SubSeq(m, Layout[abi][i] + 1, EndAt(i, abi))

\* (m)->name : an integer member is loaded in host order, an array member is
\* its bytes
Fld(m, name) ==
  IF wavHeader[FieldIdx(name)].size = 1
  THEN Bytes(m, name)
  ELSE HostValue(Bytes(m, name), host)

\* (m)->name = v
Store(m, name, v) ==
  LET i   == FieldIdx(name)
      off == Layout[abi][i]
      bs  == IF wavHeader[i].size = 1 THEN v
             ELSE HostBytes(v, wavHeader[i].size, host)
  IN  SubSeq(m, 1, off) \o bs \o SubSeq(m, off + Len(bs) + 1, Len(m))

\* the object representation of the value v of the i-th member
Repr(i, v) ==
  IF wavHeader[i].size = 1 THEN v ELSE HostBytes(v, wavHeader[i].size, host)

Zeros(n) == [ k \in 1..n |-> 0 ]

\* the bytes of the object from the end of member i - 1 on: the padding in
\* front of member i (zero bytes), the member, and the rest
RECURSIVE Pieces(_, _)
Pieces(vals, i) ==
  IF i > Len(wavHeader)
  THEN Zeros(SizeOf(abi) - EndAt(Len(wavHeader), abi))
  ELSE Zeros(Layout[abi][i] - (IF i = 1 THEN 0 ELSE EndAt(i - 1, abi)))
         \o Repr(i, vals[wavHeader[i].name])
         \o Pieces(vals, i + 1)

\* a header object whose members hold the values of the record vals
MakeHeader(vals) == Pieces(vals, 1)

(***************************************************************************)
(* The macros.  The argument wav is the header object.                     *)
(***************************************************************************)
\* the 4-byte comparison "data" in place of the test of bytes 0 and 3
TEST_WAV_COMPAT_fulltag(w) ==
  /\ Fld(w, "AudioFormat") = 1
  /\ (Fld(w, "NumOfChan") = 1 \/ Fld(w, "NumOfChan") = 2)
  /\ Fld(w, "SamplesPerSec") = 16000
  /\ Fld(w, "bitsPerSample") = 16
  /\ Fld(w, "Subchunk2ID") = << Ch_d, Ch_a, 116, Ch_a >>

\* the test of the sampling rate left out
TEST_WAV_COMPAT_norate(w) ==
  /\ Fld(w, "AudioFormat") = 1
  /\ (Fld(w, "NumOfChan") = 1 \/ Fld(w, "NumOfChan") = 2)
  /\ Fld(w, "bitsPerSample") = 16
  /\ Fld(w, "Subchunk2ID")[1] = Ch_d
  /\ Fld(w, "Subchunk2ID")[4] = Ch_a

\* the channel test written as an upper limit only
TEST_WAV_COMPAT_chanlimit(w) ==
  /\ Fld(w, "AudioFormat") = 1
  /\ Fld(w, "NumOfChan") <= 2
  /\ Fld(w, "SamplesPerSec") = 16000
  /\ Fld(w, "bitsPerSample") = 16
  /\ Fld(w, "Subchunk2ID")[1] = Ch_d
  /\ Fld(w, "Subchunk2ID")[4] = Ch_a

\* the RIFF magic tested as well
TEST_WAV_COMPAT_magic(w) ==
  /\ Fld(w, "RIFF") = << 82, 73, 70, 70 >>
  /\ Fld(w, "AudioFormat") = 1
  /\ (Fld(w, "NumOfChan") = 1 \/ Fld(w, "NumOfChan") = 2)
  /\ Fld(w, "SamplesPerSec") = 16000
  /\ Fld(w, "bitsPerSample") = 16
  /\ Fld(w, "Subchunk2ID")[1] = Ch_d
  /\ Fld(w, "Subchunk2ID")[4] = Ch_a

TEST_WAV_COMPAT(w) ==
  /\ Fld(w, "AudioFormat") = 1
  /\ (Fld(w, "NumOfChan") = 1 \/ Fld(w, "NumOfChan") = 2)
  /\ Fld(w, "SamplesPerSec") = 16000
  /\ Fld(w, "bitsPerSample") = 16
  /\ Fld(w, "Subchunk2ID")[1] = Ch_d
  /\ Fld(w, "Subchunk2ID")[4] = Ch_a

\* the length taken from the RIFF chunk size
WAV_LEN_chunk(w) == Fld(w, "ChunkSize")

WAV_LEN(w) == Fld(w, "Subchunk2Size")

\* the value of a product of two promoted operands in a 32-bit int
\* (two's complement, 16 bits at a time)
ToInt32(p) ==
  LET lo == p % 65536
      hi == (p \div 65536) % 65536
  IN  IF hi >= 32768 THEN lo + 65536 * (hi - 65536) ELSE lo + 65536 * hi

\* the product computed in a 16-bit unsigned int
Divisor_int16(w) == ((Fld(w, "bitsPerSample") \div 8) * Fld(w, "NumOfChan")) % 65536

\* the bits of a sample rounded up to whole bytes
Divisor_roundup(w) ==
  ToInt32(((Fld(w, "bitsPerSample") + 7) \div 8) * Fld(w, "NumOfChan"))

\* ((wav)->bitsPerSample/8)*(wav)->NumOfChan : both operands are promoted
\* to int
Divisor(w) == ToInt32((Fld(w, "bitsPerSample") \div 8) * Fld(w, "NumOfChan"))

Value(v) == [kind |-> "value", value |-> v]

Trap == [kind |-> "trap", value |-> 0]

\* what a build can make of an unsigned division by zero: a trap, or some
\* value
DivideByZero(w) == { Trap, Value(0), Value(WAV_LEN(w)) }

\* the outcomes of WAV_NSAMPLES: the quotient of the unsigned division
\* (a negative int divisor converts to a value above every length of the
\* model), or the outcomes of a division by zero
WAV_NSAMPLES(w) ==
  LET d == Divisor(w)
  IN  IF d = 0 THEN DivideByZero(w)
      ELSE IF d < 0 THEN { Value(0) }
      ELSE { Value(WAV_LEN(w) \div d) }

(***************************************************************************)
(* Headers of the model.                                                   *)
(***************************************************************************)
AudioFormats == 0..MaxFormat

Chans == (0..MaxChan) \cup { 65535 }

Rates == { 16000, 44100 }

BitsValues == { 7, 8, 12, 16, 65535 }

\* "data", "dXXa", "datX", "Xata"
Tags == { << 100, 97, 116, 97 >>, << 100, 88, 88, 97 >>, << 100, 97, 116, 88 >>,
          << 88, 97, 116, 97 >> }

Lens == (0..MaxSmallLen) \cup { 4000, 4001, 2147483647 }

\* the members no macro reads: a canonical set and a set with wrong magic
\* bytes and inconsistent rates
Others ==
  { [RIFF |-> << 82, 73, 70, 70 >>, ChunkSize |-> 36, WAVE |-> << 87, 65, 86, 69 >>,
     fmt |-> << 102, 109, 116, 32 >>, Subchunk1Size |-> 16, bytesPerSec |-> 32000,
     blockAlign |-> 2],
    [RIFF |-> << 82, 73, 70, 88 >>, ChunkSize |-> 0, WAVE |-> << 65, 86, 73, 32 >>,
     fmt |-> << 102, 109, 116, 0 >>, Subchunk1Size |-> 18, bytesPerSec |-> 1,
     blockAlign |-> 0] }

HeaderValues ==
  { [RIFF |-> o.RIFF, ChunkSize |-> o.ChunkSize, WAVE |-> o.WAVE, fmt |-> o.fmt,
     Subchunk1Size |-> o.Subchunk1Size, AudioFormat |-> af, NumOfChan |-> nc,
     SamplesPerSec |-> sr, bytesPerSec |-> o.bytesPerSec, blockAlign |-> o.blockAlign,
     bitsPerSample |-> bps, Subchunk2ID |-> tag, Subchunk2Size |-> sz] :
       o \in Others, af \in AudioFormats, nc \in Chans, sr \in Rates,
       bps \in BitsValues, tag \in Tags, sz \in Lens }

(***************************************************************************)
(* The state machine: a header object exists; each macro is evaluated on   *)
(* it once, in any order, and its result is recorded (<< >> before).       *)
(***************************************************************************)
Init ==
  /\ host \in Hosts
  /\ abi \in ABIs
  /\ \E vals \in HeaderValues : wav = MakeHeader(vals)
  /\ compat = << >>
  /\ len = << >>
  /\ nsamples = << >>

TestWavCompat ==
  /\ compat = << >>
  /\ compat' = << TEST_WAV_COMPAT(wav) >>
  /\ UNCHANGED << host, abi, wav, len, nsamples >>

WavLen ==
  /\ len = << >>
  /\ len' = << WAV_LEN(wav) >>
  /\ UNCHANGED << host, abi, wav, compat, nsamples >>

WavNSamples ==
  /\ nsamples = << >>
  /\ \E o \in WAV_NSAMPLES(wav) : nsamples' = << o >>
  /\ UNCHANGED << host, abi, wav, compat, len >>

Next == TestWavCompat \/ WavLen \/ WavNSamples

Spec == Init /\ [][Next]_vars

(***************************************************************************)
(* Properties.                                                             *)
(***************************************************************************)
\* the value of member name of the header
F(name) == Fld(wav, name)

\* the header with one member changed
With(name, v) == Store(wav, name, v)

\* values a member that TEST_WAV_COMPAT reads can be changed to so that the
\* test fails
NonPassing ==
  { << "AudioFormat", 2 >>, << "AudioFormat", 257 >>,
    << "NumOfChan", 0 >>, << "NumOfChan", 3 >>,
    << "SamplesPerSec", 44100 >>,
    << "bitsPerSample", 8 >>, << "bitsPerSample", 24 >> }

\* other values for the members TEST_WAV_COMPAT does not read
Unread ==
  { << "RIFF", << 82, 73, 70, 70 >> >>, << "RIFF", << 0, 0, 0, 0 >> >>,
    << "ChunkSize", 2147483647 >>,
    << "WAVE", << 88, 88, 88, 88 >> >>,
    << "fmt", << 100, 97, 116, 97 >> >>,
    << "Subchunk1Size", 0 >>,
    << "bytesPerSec", 0 >>,
    << "blockAlign", 2 >>, << "blockAlign", 65535 >>,
    << "Subchunk2Size", 1 >> }

\* bytes for the middle of a tag: 'a', 't', 'X'
TagBytes == { 97, 116, 88 }

\* C1: once the compatibility check has run, its result is true exactly when
\* AudioFormat is 1, NumOfChan is 1 or 2, SamplesPerSec is 16000,
\* bitsPerSample is 16 and bytes 0 and 3 of Subchunk2ID are 'd' and 'a'; and
\* when it is true, changing one of AudioFormat, NumOfChan, SamplesPerSec,
\* bitsPerSample to a non-passing value gives a header the check rejects.
C1_CompatIff ==
  compat # << >> =>
    /\ compat[1] = ( /\ F("AudioFormat") = 1
                     /\ F("NumOfChan") \in { 1, 2 }
                     /\ F("SamplesPerSec") = 16000
                     /\ F("bitsPerSample") = 16
                     /\ F("Subchunk2ID")[1] = 100
                     /\ F("Subchunk2ID")[4] = 97 )
    /\ compat[1] => \A c \in NonPassing : ~TEST_WAV_COMPAT(With(c[1], c[2]))

\* the check has accepted the mono 16 kHz 16-bit PCM header tagged "data"
C1_Witness ==
  /\ compat = << TRUE >>
  /\ F("NumOfChan") = 1
  /\ F("Subchunk2ID") = << 100, 97, 116, 97 >>

\* C2: whenever the sample count has been computed on a header whose
\* bitsPerSample is below 8 or whose NumOfChan is 0, the outcome is an
\* explicit error.
C2_ExplicitError ==
  (nsamples # << >> /\ (F("bitsPerSample") < 8 \/ F("NumOfChan") = 0))
    => nsamples[1].kind = "error"

\* C3: once the sample count has been computed on a header with
\* bitsPerSample >= 8 and NumOfChan >= 1, it is Subchunk2Size divided
\* (truncating) by the product of bitsPerSample divided (truncating) by 8 and
\* NumOfChan; for bitsPerSample 16 and NumOfChan 2 it is 1000 for
\* Subchunk2Size 4000 and for 4001.
C3_SampleCount ==
  (nsamples # << >> /\ F("bitsPerSample") >= 8 /\ F("NumOfChan") >= 1) =>
    /\ nsamples[1].kind = "value"
    /\ nsamples[1].value =
         F("Subchunk2Size") \div ((F("bitsPerSample") \div 8) * F("NumOfChan"))
    /\ (F("bitsPerSample") = 16 /\ F("NumOfChan") = 2
          /\ F("Subchunk2Size") \in { 4000, 4001 }) => nsamples[1].value = 1000

\* the count of a misaligned payload and the count of a fractional bit depth
\* have been computed
C3_Witness ==
  /\ nsamples # << >>
  /\ \/ /\ F("bitsPerSample") = 16 /\ F("NumOfChan") = 2
        /\ F("Subchunk2Size") = 4001 /\ nsamples[1].value = 1000
     \/ /\ F("bitsPerSample") = 12 /\ F("NumOfChan") = 2
        /\ F("Subchunk2Size") = 4001 /\ nsamples[1].value = 2000

\* C4: once the compatibility check has run, every header that differs from
\* the checked one only in bytes 1 and 2 of Subchunk2ID gets the same
\* result; a header tagged 'd','X','X','a' whose other members pass is
\* accepted.
C4_WeakTag ==
  compat # << >> =>
    /\ \A b1 \in TagBytes, b2 \in TagBytes :
         TEST_WAV_COMPAT(With("Subchunk2ID",
             << F("Subchunk2ID")[1], b1, b2, F("Subchunk2ID")[4] >>)) = compat[1]
    /\ ( /\ F("Subchunk2ID") = << 100, 88, 88, 97 >>
         /\ F("AudioFormat") = 1 /\ F("NumOfChan") \in { 1, 2 }
         /\ F("SamplesPerSec") = 16000 /\ F("bitsPerSample") = 16 ) => compat[1]

\* the check has accepted a header tagged 'd','X','X','a'
C4_Witness ==
  /\ compat = << TRUE >>
  /\ F("Subchunk2ID") = << 100, 88, 88, 97 >>

\* the integer members of the struct
IntFields == { i \in 1..Len(wavHeader) : wavHeader[i].size > 1 }

\* C5: once a macro has read the header, the value of every integer member
\* is the little-endian decoding of the member's bytes (stated on the bytes:
\* the little-endian encoding of the value is the member's bytes), on every
\* host.
C5_LittleEndian ==
  (compat # << >> \/ len # << >> \/ nsamples # << >>) =>
    \A i \in IntFields :
      LEBytes(F(wavHeader[i].name), wavHeader[i].size) = Bytes(wav, wavHeader[i].name)

\* the layout table of the format
LayoutTable ==
  << << "RIFF", 0 >>, << "ChunkSize", 4 >>, << "WAVE", 8 >>, << "fmt", 12 >>,
     << "Subchunk1Size", 16 >>, << "AudioFormat", 20 >>, << "NumOfChan", 22 >>,
     << "SamplesPerSec", 24 >>, << "bytesPerSec", 28 >>, << "blockAlign", 32 >>,
     << "bitsPerSample", 34 >>, << "Subchunk2ID", 36 >>, << "Subchunk2Size", 40 >> >>

\* C6: under the alignments of the build, the header object has 44 bytes,
\* its members are in the order and at the offsets of the layout table, the
\* first member is at offset 0, each member starts where the one before it
\* ends and the last member ends at byte 44.
C6_Layout ==
  /\ SizeOf(abi) = 44
  /\ Len(wav) = 44
  /\ Len(wavHeader) = Len(LayoutTable)
  /\ \A i \in 1..Len(LayoutTable) :
       /\ wavHeader[i].name = LayoutTable[i][1]
       /\ Layout[abi][i] = LayoutTable[i][2]
       /\ OffsetOf(LayoutTable[i][1], abi) = LayoutTable[i][2]
       /\ Layout[abi][i] = (IF i = 1 THEN 0 ELSE EndAt(i - 1, abi))
  /\ EndAt(Len(wavHeader), abi) = 44

\* the last member has been read from a header laid out with 4-byte aligned
\* 32-bit integers
C6_Witness ==
  /\ abi = [a16 |-> 2, a32 |-> 4]
  /\ len # << >>
  /\ Len(wav) = 44

\* members other than Subchunk2Size, with other values
NotTheLength ==
  { << "RIFF", << 0, 0, 0, 0 >> >>, << "ChunkSize", 2147483647 >>,
    << "ChunkSize", 4036 >>, << "WAVE", << 88, 88, 88, 88 >> >>,
    << "fmt", << 100, 97, 116, 97 >> >>, << "Subchunk1Size", 0 >>,
    << "AudioFormat", 257 >>, << "NumOfChan", 0 >>, << "SamplesPerSec", 44100 >>,
    << "bytesPerSec", 0 >>, << "blockAlign", 65535 >>, << "bitsPerSample", 0 >>,
    << "Subchunk2ID", << 0, 0, 0, 0 >> >> }

\* C7: once the payload length has been computed it is the header's
\* Subchunk2Size, whatever the compatibility check says of the header, and
\* every header that differs in one other member has the same length.
C7_Length ==
  len # << >> =>
    /\ len[1] = F("Subchunk2Size")
    /\ \A c \in NotTheLength : WAV_LEN(With(c[1], c[2])) = len[1]

\* the length has been computed on a rejected header whose ChunkSize is 0
C7_Witness ==
  /\ len = << 4000 >>
  /\ compat = << FALSE >>
  /\ F("ChunkSize") = 0

\* C8: once the compatibility check has accepted the header, the divisor of
\* the sample count is 2 or 4, and the sample count, once computed, is a
\* value: Subchunk2Size divided (truncating) by 2 for NumOfChan 1 and by 4
\* for NumOfChan 2.
C8_CompatDefined ==
  compat = << TRUE >> =>
    /\ Divisor(wav) \in { 2, 4 }
    /\ nsamples # << >> =>
         /\ nsamples[1].kind = "value"
         /\ F("NumOfChan") = 1 => nsamples[1].value = F("Subchunk2Size") \div 2
         /\ F("NumOfChan") = 2 => nsamples[1].value = F("Subchunk2Size") \div 4
         /\ F("NumOfChan") \in { 1, 2 }

\* the header was accepted and the count of a mono payload computed
C8_Witness ==
  /\ compat = << TRUE >>
  /\ F("NumOfChan") = 1
  /\ F("Subchunk2Size") = 4001
  /\ nsamples = << Value(2000) >>

\* C9: once the compatibility check has run, every header that differs from
\* the checked one in one of RIFF, ChunkSize, WAVE, fmt, Subchunk1Size,
\* bytesPerSec, blockAlign, Subchunk2Size gets the same result.
C9_Independent ==
  compat # << >> =>
    \A c \in Unread : TEST_WAV_COMPAT(With(c[1], c[2])) = compat[1]

\* the check has accepted a header with wrong magic bytes and a blockAlign
\* and bytesPerSec that do not fit the other members
C9_Witness ==
  /\ compat = << TRUE >>
  /\ F("RIFF") # << 82, 73, 70, 70 >>
  /\ F("WAVE") # << 87, 65, 86, 69 >>
  /\ F("fmt") # << 102, 109, 116, 32 >>
  /\ F("blockAlign") = 0
  /\ F("bytesPerSec") = 1

\* C10: the divisor is the product of bitsPerSample divided (truncating) by 8
\* and NumOfChan, unwrapped and at most 8191 * 65535; it is zero exactly when
\* bitsPerSample < 8 or NumOfChan = 0; and once the sample count n has been
\* computed with a nonzero divisor d, n * d <= Subchunk2Size < (n + 1) * d
\* and n <= Subchunk2Size.
C10_Divisor ==
  LET d == Divisor(wav)
  IN  /\ d = (F("bitsPerSample") \div 8) * F("NumOfChan")
      /\ d >= 0
      /\ d <= 8191 * 65535
      /\ (d = 0) <=> (F("bitsPerSample") < 8 \/ F("NumOfChan") = 0)
      /\ (nsamples # << >> /\ d # 0) =>
           /\ nsamples[1].kind = "value"
           /\ nsamples[1].value * d <= F("Subchunk2Size")
           /\ F("Subchunk2Size") - nsamples[1].value * d < d
           /\ nsamples[1].value <= F("Subchunk2Size")

\* the count has been computed with the largest divisor of 16-bit members
C10_Witness ==
  /\ nsamples # << >>
  /\ F("bitsPerSample") = 65535
  /\ F("NumOfChan") = 65535
  /\ Divisor(wav) = 8191 * 65535
  /\ F("Subchunk2Size") = 2147483647
  /\ nsamples[1] = Value(4)

====
